---- MODULE Spec2Model ----
(***************************************************************************)
(* Model of the `run` crate: run_minecraft_server (src/run/src/lib.rs) and *)
(* its command-line entry point main (src/run/src/main.rs).                *)
(*                                                                         *)
(* One behaviour is a sequence of invocations of the program against the   *)
(* same target directory.  The directory's files persist from one          *)
(* invocation to the next; everything else is rebuilt by each invocation.  *)
(***************************************************************************)
EXTENDS Naturals, Integers, Sequences, FiniteSets, TLC

\* ------------------------------------------------------------------ bounds

\* A behaviour is either one invocation, on a directory that holds
\* world/level.dat and no eula.txt, whose two sources yield up to MaxLines
\* lines each, or up to MaxRuns invocations against the same directory, of
\* any content, whose child prints nothing.  The pipeline of an invocation
\* reads nothing of the directory and nothing of an earlier invocation.
MaxLines == 3
MaxRuns == 2

\* ------------------------------------------------------- program constants

\* mpsc::channel(1)
ChannelCapacity == 1

\* The two relay tasks, in the order of the `threads` array:
\* 1 relays the child's stdout, 2 relays its stderr.
Relays == {1, 2}

\* Filenames the download page's link may carry (link.inner_html()).
ArtifactNames == {"server-a.jar", "server-b.jar"}

\* The byte written after every line: b'\n'.  A line is <<relay, index>>.
NL == <<0, 0>>

VARIABLES
  \* the target directory
  world,        \* the entry `world`: "absent", "dir" or "file"
  levelDat,     \* whether world/level.dat exists
  jar,          \* artifact file per filename: "absent","empty","partial","complete"
  eula,         \* eula.txt: "absent", "other" (the user's own) or "eula=true"
  \* the bounds of this behaviour, fixed by Init
  lineCap,      \* lines a source yields at most
  runCap,       \* invocations at most
  \* the invocation
  run,          \* number of the current invocation, 1..MaxRuns
  pc,           \* position of the body of run_minecraft_server
  result,       \* what the body returned: [variant, origin]
  fname,        \* server_filename, "none" before it is resolved
  net,          \* HTTP requests sent in this invocation
  wrote,        \* files created or written in this invocation
  spawned,      \* child processes spawned in this invocation
  setupDone,    \* this invocation went through lines 110-125 without an error
  fs0,          \* the directory's files when this invocation started
  prev,         \* summary of the previous invocation
  \* the relay tasks
  rpc,          \* per relay: "idle","read","send","ok","io_err","send_err",
                \*            "panicked","cancelled"
  held,         \* per relay: index of the line it holds between read and send, 0 if none
  yielded,      \* per relay: lines its Line Reader has yielded so far
  partial,      \* per relay: its Line Reader has buffered the first bytes of a
                \*            line whose terminator it has not read yet
  lateRead,     \* a Line Reader yielded a line after the other relay had
                \* ended with an error (history)
  \* the channel
  chan,         \* queued OutputMessages
  rxOpen,       \* the receiver exists (not dropped)
  \* the aggregator loop and the join loop
  apc,          \* "recv", "write_all", "write_u8", "flush"
  cur,          \* the message taken by recv, NL if none
  wbuf,         \* BufWriter's buffer: written, not flushed
  sink,         \* what the output sink has received
  sinkFailed,   \* a write or flush to the sink failed in this invocation
  taken,        \* the messages recv has returned, in that order (history)
  joinIdx,      \* index in `threads` of the handle awaited next
  \* the child process and the process of the program itself
  childHandle,  \* minecraft_server: "none", "owned", "dropped"
  childProc,    \* the process spawned by this invocation: "none", "running", "exited"
  stderrLines,  \* lines main printed to standard error in this invocation
  exitCode      \* exit status of the program, -1 while it runs

fsVars    == <<world, levelDat, jar, eula, lineCap, runCap>>
runVars   == <<run, pc, result, fname, net, wrote, spawned, setupDone, fs0, prev>>
relayVars == <<rpc, held, yielded, partial, lateRead>>
chanVars  == <<chan, rxOpen>>
aggVars   == <<apc, cur, wbuf, sink, sinkFailed, taken, joinIdx>>
procVars  == <<childHandle, childProc, stderrLines, exitCode>>
vars == <<fsVars, runVars, relayVars, chanVars, aggVars, procVars>>

\* ------------------------------------------------------------ pure helpers

\* fn path_exists: path.is_dir() || path.is_file(), on the kind of an entry.
path_exists(kind) == kind = "dir" \/ kind = "file"

\* Kind of the entry world/level.dat.
LevelDatKind == IF world = "dir" /\ levelDat THEN "file" ELSE "absent"

\* Mutant: the directory is never looked at.
is_likely_without_check == TRUE

\* fn is_likely_minecraft_directory
is_likely_minecraft_directory ==
  path_exists(world) \/ path_exists(LevelDatKind)

\* Kind of the entry server_path = path.join(server_filename).
JarKind(name) == IF jar[name] = "absent" THEN "absent" ELSE "file"

\* Kind of the entry eula.txt.
EulaKind == IF eula = "absent" THEN "absent" ELSE "file"

Files == [jar |-> jar, eula |-> eula]

\* Result<(), RunMinecraftError> with, for an error, the step it comes from.
NoResult == [variant |-> "none", origin |-> "none"]
Ok == [variant |-> "Ok", origin |-> "none"]
Err(v, o) == [variant |-> v, origin |-> o]

\* Name of a relay's stream.
Stream(i) == IF i = 1 THEN "stdout" ELSE "stderr"

NoPrev == [setup |-> FALSE, fname |-> "none", downloaded |-> FALSE]

Running(i) == rpc[i] \in {"read", "send"}
Terminated(i) == rpc[i] \in {"ok", "io_err", "send_err", "panicked", "cancelled"}

\* ------------------------------------------------------------------- Init

\* The program is started for the first time on the directory; `cap` is
\* the number of lines a source yields at most in a single invocation.
InitWith(cap) ==
  /\ world \in {"absent", "dir", "file"}
  /\ levelDat \in BOOLEAN
  /\ (levelDat => world = "dir")
  /\ jar = [n \in ArtifactNames |-> "absent"]
  /\ eula \in {"absent", "other"}
  /\ \/ /\ lineCap = cap /\ runCap = 1
        /\ world = "dir" /\ levelDat /\ eula = "absent"
     \/ lineCap = 0 /\ runCap = MaxRuns
  /\ run = 1
  /\ pc = "check"
  /\ result = NoResult
  /\ fname = "none"
  /\ net = 0
  /\ wrote = {}
  /\ spawned = 0
  /\ setupDone = FALSE
  /\ fs0 = [jar |-> jar, eula |-> eula]
  /\ prev = NoPrev
  /\ rpc = [i \in Relays |-> "idle"]
  /\ held = [i \in Relays |-> 0]
  /\ yielded = [i \in Relays |-> 0]
  /\ partial = [i \in Relays |-> FALSE]
  /\ lateRead = FALSE
  /\ chan = <<>>
  /\ rxOpen = FALSE
  /\ apc = "recv"
  /\ cur = NL
  /\ wbuf = <<>>
  /\ sink = <<>>
  /\ sinkFailed = FALSE
  /\ taken = <<>>
  /\ joinIdx = 1
  /\ childHandle = "none"
  /\ childProc = "none"
  /\ stderrLines = 0
  /\ exitCode = -1

Init == InitWith(MaxLines)

\* The body of run_minecraft_server returns `res`: its locals are dropped.
\* Dropping the receiver closes the channel and discards what is queued;
\* dropping the BufWriter discards what was not flushed; dropping the Child
\* and the JoinHandles stops neither the process nor the tasks.
Return(res) ==
  /\ pc' = "body_done"
  /\ result' = res
  /\ rxOpen' = FALSE
  /\ chan' = <<>>
  /\ wbuf' = <<>>
  /\ childHandle' = IF childHandle = "owned" THEN "dropped" ELSE childHandle

\* Return before the child is spawned: nothing of the pipeline exists yet.
ReturnEarly(res) ==
  /\ Return(res)
  /\ UNCHANGED <<relayVars, apc, cur, sink, sinkFailed, taken, joinIdx, childProc,
                 stderrLines, exitCode>>

\* ----------------------------------------------------- setup (lines 75-125)

\* if !is_likely_minecraft_directory(path) { return Err(NoWorld) }
CheckDirectory ==
  /\ pc = "check"
  /\ IF is_likely_minecraft_directory
       THEN /\ pc' = "page"
            /\ UNCHANGED <<result, chanVars, relayVars, aggVars, procVars>>
       ELSE ReturnEarly(Err("NoWorld", "check"))
  /\ UNCHANGED <<fsVars, run, fname, net, wrote, spawned, setupDone, fs0, prev>>

\* Client::builder()...build()?  then  client.get(page).send().await?.text().await?
\* The client may fail to build (no request sent); the request may fail.
FetchPage ==
  /\ pc = "page"
  /\ \/ /\ ReturnEarly(Err("CouldNotFetch", "client"))
        /\ UNCHANGED net
     \/ /\ net' = net + 1
        /\ ReturnEarly(Err("CouldNotFetch", "page"))
     \/ /\ net' = net + 1
        /\ pc' = "resolve"
        /\ UNCHANGED <<result, chanVars, relayVars, aggVars, procVars>>
  /\ UNCHANGED <<fsVars, run, fname, wrote, spawned, setupDone, fs0, prev>>

\* document.select(&selector).next().ok_or(CouldNotFindServer)?, inner_html(),
\* attr("href").ok_or(CouldNotFindServer)?  The selector is a constant that parses.
ResolveLink ==
  /\ pc = "resolve"
  /\ \/ /\ ReturnEarly(Err("CouldNotFindServer", "resolve"))
        /\ UNCHANGED fname
     \/ /\ \E n \in ArtifactNames : fname' = n
        /\ pc' = "artifact"
        /\ UNCHANGED <<result, chanVars, relayVars, aggVars, procVars>>
  /\ UNCHANGED <<fsVars, run, net, wrote, spawned, setupDone, fs0, prev>>

\* Mutant: the artifact is downloaded whether or not it is there.
MustDownloadAlways == TRUE

\* The test of line 110: download only when server_path does not exist.
MustDownload == ~path_exists(JarKind(fname))

\* if !path_exists(&server_path) { let mut file = File::create(&server_path)?; ...
CreateArtifact ==
  /\ pc = "artifact"
  /\ IF MustDownload
       THEN \/ /\ jar' = [jar EXCEPT ![fname] = "empty"]
               /\ wrote' = wrote \cup {fname}
               /\ pc' = "download"
               /\ UNCHANGED <<result, chanVars, relayVars, aggVars, procVars>>
            \/ /\ ReturnEarly(Err("IoError", "create"))
               /\ UNCHANGED <<jar, wrote>>
       ELSE /\ pc' = "eula"
            /\ UNCHANGED <<jar, wrote, result, chanVars, relayVars, aggVars, procVars>>
  /\ UNCHANGED <<world, levelDat, eula, lineCap, runCap, run, fname, net, spawned,
                 setupDone, fs0, prev>>

\* client.get(server_download_url).send().await?.bytes().await?
DownloadArtifact ==
  /\ pc = "download"
  /\ net' = net + 1
  /\ \/ ReturnEarly(Err("CouldNotFetch", "download"))
     \/ /\ pc' = "write"
        /\ UNCHANGED <<result, chanVars, relayVars, aggVars, procVars>>
  /\ UNCHANGED <<fsVars, run, fname, wrote, spawned, setupDone, fs0, prev>>

\* file.write(&bytes)?: one write call, which may write all the bytes, only
\* a prefix of them (Ok(n) with n < len, not looked at), or fail.
WriteArtifact ==
  /\ pc = "write"
  /\ \/ /\ \E c \in {"complete", "partial"} : jar' = [jar EXCEPT ![fname] = c]
        /\ pc' = "eula"
        /\ UNCHANGED <<result, chanVars, relayVars, aggVars, procVars>>
     \/ /\ ReturnEarly(Err("IoError", "write"))
        /\ UNCHANGED jar
  /\ UNCHANGED <<world, levelDat, eula, lineCap, runCap, run, fname, net, wrote, spawned,
                 setupDone, fs0, prev>>

\* The test of line 123: write eula.txt only when it does not exist.
MustWriteEula == ~path_exists(EulaKind)

\* if !path_exists(&eula_file) { fs::write(eula_file, "eula=true")?; }
\* A failed fs::write may have created the file already.
WriteEula ==
  /\ pc = "eula"
  /\ IF MustWriteEula
       THEN \/ /\ eula' = "eula=true"
               /\ wrote' = wrote \cup {"eula.txt"}
               /\ pc' = "spawn"
               /\ setupDone' = TRUE
               /\ UNCHANGED <<result, chanVars, relayVars, aggVars, procVars>>
            \/ /\ \E e \in {"absent", "other"} :
                    /\ eula' = e
                    /\ wrote' = IF e = "absent" THEN wrote ELSE wrote \cup {"eula.txt"}
               /\ ReturnEarly(Err("IoError", "eula"))
               /\ UNCHANGED setupDone
       ELSE /\ pc' = "spawn"
            /\ setupDone' = TRUE
            /\ UNCHANGED <<eula, wrote, result, chanVars, relayVars, aggVars, procVars>>
  /\ UNCHANGED <<world, levelDat, jar, lineCap, runCap, run, fname, net, spawned, fs0, prev>>

\* ------------------------------------------- launch and wiring (127-153)

\* Command::new("java")...spawn()?, the two Lines readers, the BufWriter,
\* mpsc::channel(1) and the two run_grab_output_thread calls: no await
\* between them.
SpawnServer ==
  /\ pc = "spawn"
  /\ \/ /\ ReturnEarly(Err("IoError", "spawn"))
        /\ UNCHANGED spawned
     \/ /\ spawned' = spawned + 1
        /\ childHandle' = "owned"
        /\ childProc' = "running"
        /\ rpc' = [i \in Relays |-> "read"]
        /\ rxOpen' = TRUE
        /\ pc' = "drain"
        /\ UNCHANGED <<result, held, yielded, partial, lateRead, chan, aggVars,
                       stderrLines, exitCode>>
  /\ UNCHANGED <<fsVars, run, fname, net, wrote, setupDone, fs0, prev>>

\* ------------------------------------ run_grab_output_thread (lines 57-68)

RelayFrame == <<fsVars, runVars, aggVars, procVars>>

\* The relay task ended with an error.
Failed(i) == rpc[i] \in {"io_err", "send_err", "panicked"}

\* Inside reader.next_line().await: a read returned bytes of the next line
\* but not its terminator; they stay in the reader's buffer and the call
\* goes on reading.
RelayReadPartial(i) ==
  /\ rpc[i] = "read"
  /\ yielded[i] < lineCap
  /\ ~partial[i]
  /\ partial' = [partial EXCEPT ![i] = TRUE]
  /\ UNCHANGED <<rpc, held, yielded, lateRead, chanVars, RelayFrame>>

\* reader.next_line().await? returned Some(line): the next line of the
\* stream, complete (its terminator was read, or the stream ended after
\* its last bytes).
RelayReadLine(i) ==
  /\ rpc[i] = "read"
  /\ yielded[i] < lineCap
  /\ yielded' = [yielded EXCEPT ![i] = @ + 1]
  /\ held' = [held EXCEPT ![i] = yielded[i] + 1]
  /\ partial' = [partial EXCEPT ![i] = FALSE]
  /\ lateRead' = (lateRead \/ \E j \in Relays \ {i} : Failed(j))
  /\ rpc' = [rpc EXCEPT ![i] = "send"]
  /\ UNCHANGED <<chanVars, RelayFrame>>

\* reader.next_line().await? returned None: the loop ends, Ok(()); the
\* task's sender is dropped with it.
RelayReadEof(i) ==
  /\ rpc[i] = "read"
  /\ ~partial[i]
  /\ rpc' = [rpc EXCEPT ![i] = "ok"]
  /\ UNCHANGED <<held, yielded, partial, lateRead, chanVars, RelayFrame>>

\* Mutant: on a read failure the reader hands out what it has buffered.
AfterReadErrLossy(i) ==
  IF partial[i] THEN [rpc |-> "send", held |-> yielded[i] + 1]
                ELSE [rpc |-> "io_err", held |-> 0]

\* The task after `?` met the read failure: it ends with
\* ThreadError::IoError and holds no line; what the reader had buffered of
\* an unfinished line is dropped with the reader.
AfterReadErr(i) == [rpc |-> "io_err", held |-> 0]

\* reader.next_line().await? failed.
RelayReadErr(i) ==
  /\ rpc[i] = "read"
  /\ rpc' = [rpc EXCEPT ![i] = AfterReadErr(i).rpc]
  /\ held' = [held EXCEPT ![i] = AfterReadErr(i).held]
  /\ UNCHANGED <<yielded, partial, lateRead, chanVars, RelayFrame>>

\* Mutant: an unbounded channel, a send never waits.
HasCapacityUnbounded == TRUE

\* Whether a send can complete now: a permit of the channel is free.
HasCapacity == Len(chan) < ChannelCapacity

\* The queue after a send of message m.
Enqueue(q, m) == Append(q, m)

\* sender.send(OutputMessage(line)).await? completes: the line is queued.
\* While the channel is full the task stays suspended here.
RelaySend(i) ==
  /\ rpc[i] = "send"
  /\ rxOpen
  /\ HasCapacity
  /\ chan' = Enqueue(chan, <<i, held[i]>>)
  /\ held' = [held EXCEPT ![i] = 0]
  /\ rpc' = [rpc EXCEPT ![i] = "read"]
  /\ UNCHANGED <<yielded, partial, lateRead, rxOpen, RelayFrame>>

\* sender.send(..).await? fails: the receiver is gone.  The task ends with
\* ThreadError::SendError, which carries the line back and drops it.
RelaySendErr(i) ==
  /\ rpc[i] = "send"
  /\ ~rxOpen
  /\ held' = [held EXCEPT ![i] = 0]
  /\ rpc' = [rpc EXCEPT ![i] = "send_err"]
  /\ UNCHANGED <<yielded, partial, lateRead, chanVars, RelayFrame>>

\* The task panics while it is polled: awaiting its JoinHandle gives a
\* JoinError.  Unwinding drops the task's sender and the line it holds.
RelayPanic(i) ==
  /\ Running(i)
  /\ held' = [held EXCEPT ![i] = 0]
  /\ rpc' = [rpc EXCEPT ![i] = "panicked"]
  /\ UNCHANGED <<yielded, partial, lateRead, chanVars, RelayFrame>>

\* ------------------------------------- the aggregator loop (lines 154-158)

AggFrame == <<fsVars, run, fname, net, wrote, spawned, setupDone, fs0, prev,
              relayVars, childProc, stderrLines, exitCode>>

\* Mutant: the channel closes as soon as one Sender is dropped.
AnySenderDropped == \E i \in Relays : Terminated(i)

\* Mutant: the body keeps a Sender of its own (sender.clone() handed to
\* both tasks), so the channel never closes.
AllSendersDroppedButTheBodys == FALSE

\* Every Sender is dropped: each relay task has ended.
AllSendersDropped == \A i \in Relays : Terminated(i)

\* receiver.recv().await returned Some(message).
AggRecv ==
  /\ pc = "drain" /\ apc = "recv"
  /\ chan # <<>>
  /\ cur' = Head(chan)
  /\ chan' = Tail(chan)
  /\ taken' = Append(taken, Head(chan))
  /\ apc' = "write_all"
  /\ UNCHANGED <<pc, result, rxOpen, wbuf, sink, sinkFailed, joinIdx, childHandle, AggFrame>>

\* Mutant: recv reports the end without looking at what is queued.
QueueEmptyNotLooked(q) == TRUE

\* No message is queued.
QueueEmpty(q) == q = <<>>

\* receiver.recv().await returned None: the channel is empty and closed.
AggRecvNone ==
  /\ pc = "drain" /\ apc = "recv"
  /\ QueueEmpty(chan)
  /\ AllSendersDropped
  /\ pc' = "join"
  /\ UNCHANGED <<result, chanVars, aggVars, childHandle, AggFrame>>

\* Mutant: the sink's error is dropped (`let _ = ...`) and the loop goes on
\* with the next message.
SinkFailureIgnored ==
  /\ sinkFailed' = TRUE
  /\ apc' = "recv"
  /\ UNCHANGED <<pc, result, chanVars, wbuf, childHandle>>

\* The `?` of lines 155-157 met an error of the sink: the body returns it
\* from inside the loop.
SinkFailure ==
  /\ Return(Err("IoError", "sink"))
  /\ sinkFailed' = TRUE
  /\ UNCHANGED apc

\* Mutant: what is written lands in front of what is already buffered.
WrittenInFront(buf, b) == <<b>> \o buf

\* The bytes the loop writes for a message, in the order it writes them.
Written(buf, b) == Append(buf, b)

\* output_sink.write_all(message.as_bytes()).await?
AggWriteAll ==
  /\ pc = "drain" /\ apc = "write_all"
  /\ \/ /\ wbuf' = Written(wbuf, cur)
        /\ apc' = "write_u8"
        /\ UNCHANGED <<pc, result, chanVars, sinkFailed, childHandle>>
     \/ SinkFailure
  /\ UNCHANGED <<cur, sink, taken, joinIdx, AggFrame>>

\* output_sink.write_u8(b'\n').await?
AggWriteNl ==
  /\ pc = "drain" /\ apc = "write_u8"
  /\ \/ /\ wbuf' = Written(wbuf, NL)
        /\ apc' = "flush"
        /\ UNCHANGED <<pc, result, chanVars, sinkFailed, childHandle>>
     \/ SinkFailure
  /\ UNCHANGED <<cur, sink, taken, joinIdx, AggFrame>>

\* Mutant: the flushed bytes land before what the sink already holds.
FlushedInFront(s, buf) == buf \o s

\* The sink after a flush of the buffered bytes.
Flushed(s, buf) == s \o buf

\* output_sink.flush().await?: what is buffered reaches the sink.
AggFlush ==
  /\ pc = "drain" /\ apc = "flush"
  /\ \/ /\ sink' = Flushed(sink, wbuf)
        /\ wbuf' = <<>>
        /\ apc' = "recv"
        /\ cur' = NL
        /\ UNCHANGED <<pc, result, chanVars, sinkFailed, childHandle>>
     \/ /\ SinkFailure
        /\ UNCHANGED <<cur, sink>>
  /\ UNCHANGED <<taken, joinIdx, AggFrame>>

\* ------------------------------------------- the join loop (lines 159-163)

\* Mutant: a single `?`, the task's own Result is not looked at.
JoinErrorOfHandleOnly(i) == IF rpc[i] = "panicked" THEN "JoinError" ELSE "none"

\* The outcome of `thread.await` for a task that has ended: the error that
\* the two `?` of line 160 return, or "none".
JoinError(i) ==
  CASE rpc[i] = "ok" -> "none"
    [] rpc[i] = "io_err" -> "ThreadError(IoError)"
    [] rpc[i] = "send_err" -> "ThreadError(SendError)"
    [] OTHER -> "JoinError"

\* Mutant: only the first handle is awaited.
ThreadsFirstOnly == <<1>>

\* Mutant: the handles are awaited in the opposite order.
ThreadsReversed == <<2, 1>>

\* let threads = [run_grab_output_thread(stdout, ..), run_grab_output_thread(stderr, ..)]
Threads == <<1, 2>>

\* for thread in threads { thread.await??; }  Ok(())
Join ==
  /\ pc = "join"
  /\ LET t == Threads[joinIdx] IN
       /\ Terminated(t)
       /\ IF JoinError(t) # "none"
            THEN /\ Return(Err(JoinError(t), Stream(t)))
                 /\ UNCHANGED joinIdx
            ELSE IF joinIdx < Len(Threads)
              THEN /\ joinIdx' = joinIdx + 1
                   /\ UNCHANGED <<pc, result, chanVars, wbuf, childHandle>>
              ELSE /\ Return(Ok)
                   /\ UNCHANGED joinIdx
  /\ UNCHANGED <<apc, cur, sink, sinkFailed, taken, AggFrame>>

\* ------------------------------------------------------ the child process

\* The child process ends on its own.  Nothing in run_minecraft_server
\* waits for it or kills it: the Child is built without kill_on_drop and
\* neither wait() nor kill() is called, so this is the only way it ends.
ChildExit ==
  /\ childProc = "running"
  /\ pc \in {"drain", "join", "body_done", "returned"}
  /\ childProc' = "exited"
  /\ UNCHANGED <<fsVars, runVars, relayVars, chanVars, aggVars, childHandle,
                 stderrLines, exitCode>>

\* -------------------------------------------- #[tokio::main] and fn main

\* block_on has returned and the Runtime is dropped before
\* run_minecraft_server returns: every task still suspended is cancelled.
RuntimeShutdown ==
  /\ pc = "body_done"
  /\ pc' = "returned"
  /\ rpc' = [i \in Relays |-> IF Running(i) THEN "cancelled" ELSE rpc[i]]
  /\ held' = [i \in Relays |-> IF Running(i) THEN 0 ELSE held[i]]
  /\ UNCHANGED <<fsVars, run, result, fname, net, wrote, spawned, setupDone, fs0, prev,
                 yielded, partial, lateRead, chanVars, aggVars, procVars>>

\* The exit status fn main ends with: it returns () on every path.
ExitStatus(res) == 0

\* if let Err(error) = run_minecraft_server(..) { eprintln!("Error: {error}"); }
Main ==
  /\ pc = "returned"
  /\ pc' = "exited"
  /\ stderrLines' = IF result.variant # "Ok" THEN stderrLines + 1 ELSE stderrLines
  /\ exitCode' = ExitStatus(result)
  /\ UNCHANGED <<fsVars, run, result, fname, net, wrote, spawned, setupDone, fs0, prev,
                 relayVars, chanVars, aggVars, childHandle, childProc>>

\* The program is started again on the same directory.
NextRun ==
  /\ pc = "exited"
  /\ run < runCap
  /\ run' = run + 1
  /\ pc' = "check"
  /\ result' = NoResult
  /\ fname' = "none"
  /\ net' = 0
  /\ wrote' = {}
  /\ spawned' = 0
  /\ setupDone' = FALSE
  /\ fs0' = Files
  /\ prev' = [setup |-> setupDone, fname |-> fname, downloaded |-> fname \in wrote]
  /\ rpc' = [i \in Relays |-> "idle"]
  /\ held' = [i \in Relays |-> 0]
  /\ yielded' = [i \in Relays |-> 0]
  /\ partial' = [i \in Relays |-> FALSE]
  /\ lateRead' = FALSE
  /\ chan' = <<>>
  /\ rxOpen' = FALSE
  /\ apc' = "recv"
  /\ cur' = NL
  /\ wbuf' = <<>>
  /\ sink' = <<>>
  /\ sinkFailed' = FALSE
  /\ taken' = <<>>
  /\ joinIdx' = 1
  /\ childHandle' = "none"
  /\ childProc' = "none"
  /\ stderrLines' = 0
  /\ exitCode' = -1
  /\ UNCHANGED fsVars

\* --------------------------------------------------------- specifications

Next ==
  \/ CheckDirectory
  \/ FetchPage
  \/ ResolveLink
  \/ CreateArtifact
  \/ DownloadArtifact
  \/ WriteArtifact
  \/ WriteEula
  \/ SpawnServer
  \/ \E i \in Relays : RelayReadPartial(i)
  \/ \E i \in Relays : RelayReadLine(i)
  \/ \E i \in Relays : RelayReadEof(i)
  \/ \E i \in Relays : RelayReadErr(i)
  \/ \E i \in Relays : RelaySend(i)
  \/ \E i \in Relays : RelaySendErr(i)
  \/ AggRecv
  \/ AggRecvNone
  \/ AggWriteAll
  \/ AggWriteNl
  \/ AggFlush
  \/ Join
  \/ ChildExit
  \/ RuntimeShutdown
  \/ Main
  \/ NextRun

Spec == Init /\ [][Next]_vars

\* The same, where a relay task may also panic (the JoinError of line 160).
NextJoin ==
  \/ Next
  \/ \E i \in Relays : RelayPanic(i)

SpecJoin == Init /\ [][NextJoin]_vars

\* One step of relay task i inside reader.next_line().await.
RelayRead(i) ==
  RelayReadPartial(i) \/ RelayReadLine(i) \/ RelayReadEof(i) \/ RelayReadErr(i)

\* One step of the loop of lines 154-158.
Aggregate == AggRecv \/ AggRecvNone \/ AggWriteAll \/ AggWriteNl \/ AggFlush

\* The runtime polls every task that can go on, and block_on polls the
\* body; each source goes on delivering until it closes or fails, and each
\* write or flush to the sink completes or fails.
Fairness ==
  /\ \A i \in Relays : WF_vars(RelayRead(i))
  /\ \A i \in Relays : WF_vars(RelaySend(i) \/ RelaySendErr(i))
  /\ WF_vars(Aggregate)
  /\ WF_vars(Join)
  /\ WF_vars(RuntimeShutdown)

\* Liveness is checked on sources of up to MaxLines - 1 lines each.
InitFair == InitWith(MaxLines - 1)

SpecFair == InitFair /\ [][Next]_vars /\ Fairness

\* ----------------------------------------------------------------- claims

\* The body of run_minecraft_server has returned.
Returned == {"body_done", "returned", "exited"}

\* The lines of relay i in the sink, in the order they were written.
LinesOf(i) == SelectSeq(sink, LAMBDA t : t[1] = i)

\* Lines yielded by the two Line Readers, and lines the sink has received.
YieldedCount == yielded[1] + yielded[2]
DeliveredCount == Len(SelectSeq(sink, LAMBDA t : t # NL))

\* C1: in every state, for each source, the lines of that source that are in
\* the sink stand in the order in which its Line Reader yielded them
\* (increasing index), whatever the other source's lines do between them.
PerSourceOrder ==
  \A i \in Relays : \A p, q \in 1..Len(sink) :
    (p < q /\ sink[p][1] = i /\ sink[q][1] = i) => sink[p][2] < sink[q][2]

\* C1 witness: two lines of stdout in the sink with a line of stderr between.
PerSourceOrderWitness ==
  \E p, q, r \in 1..Len(sink) :
    /\ p < q /\ q < r
    /\ sink[p][1] = 1 /\ sink[q][1] = 2 /\ sink[r][1] = 1

\* Every yielded line is in the sink exactly once, each line followed by
\* exactly one terminator, and nothing else is in the sink.
SinkComplete ==
  /\ Len(sink) = 2 * YieldedCount
  /\ \A p \in 1..Len(sink) : (p % 2 = 0) <=> (sink[p] = NL)
  /\ \A i \in Relays : \A k \in 1..yielded[i] :
       Cardinality({p \in 1..Len(sink) : sink[p] = <<i, k>>}) = 1

\* C2: at the step at which run_minecraft_server returns Ok, both sources
\* have closed without a failure, the sink has not failed, the sink holds
\* each of the M+N yielded lines exactly once, each followed by one '\n', and
\* no line is in the channel, in the writer's buffer or held by a relay.
NoLossNoDuplication ==
  [][(result.variant # "Ok" /\ result'.variant = "Ok") =>
       /\ \A i \in Relays : rpc[i] = "ok" /\ held[i] = 0
       /\ ~sinkFailed
       /\ chan = <<>> /\ wbuf = <<>> /\ apc = "recv"
       /\ SinkComplete]_vars

\* C2 witness: a run has returned Ok after both sources yielded lines.
NoLossNoDuplicationWitness ==
  /\ pc = "body_done" /\ result.variant = "Ok"
  /\ yielded[1] = 2 /\ yielded[2] = 1
  /\ Len(sink) = 6

\* C3: when the run has returned, the sink has not failed and the Line
\* Reader of source i reported a read failure after yielding K lines, the
\* sink holds exactly those K lines of source i, in order, and the run
\* returned ThreadError.
FailurePropagation ==
  \A i \in Relays :
    (pc \in Returned /\ rpc[i] = "io_err" /\ ~sinkFailed) =>
      /\ Len(LinesOf(i)) = yielded[i]
      /\ \A k \in 1..yielded[i] : LinesOf(i)[k] = <<i, k>>
      /\ result.variant = "ThreadError(IoError)"

\* C3 witness: stderr failed after two lines, stdout closed after one.
FailurePropagationWitness ==
  /\ pc = "body_done" /\ ~sinkFailed
  /\ rpc[2] = "io_err" /\ yielded[2] = 2
  /\ rpc[1] = "ok" /\ yielded[1] = 1

\* C4: the channel never holds more than 1 line; a relay whose send finds
\* the channel full stays suspended in that send, holding its line, until a
\* line is dequeued; and while the pipeline runs at most 4 lines are taken
\* from the sources and not yet in the sink (1 queued, 1 per relay, 1 in the
\* aggregator).
Backpressure ==
  /\ [](Len(chan) <= 1)
  /\ [](pc = "drain" => YieldedCount - DeliveredCount <= 4)
  /\ [][\A i \in Relays :
         (rpc[i] = "send" /\ Len(chan) >= 1 /\ Len(chan') >= Len(chan)) =>
           (rpc'[i] = "send" /\ held'[i] = held[i] /\ yielded'[i] = yielded[i])]_vars

\* C4 witness: 4 lines in flight, both relays suspended in send behind a
\* full channel while the aggregator is still writing a line.
BackpressureWitness ==
  /\ pc = "drain" /\ apc = "flush"
  /\ Len(chan) = 1
  /\ rpc[1] = "send" /\ rpc[2] = "send"
  /\ YieldedCount - DeliveredCount = 4

\* C5: whenever the run has returned Ok, both relay tasks have ended, and
\* both ended with Ok: none ended with a read or enqueue error, none
\* panicked or was cancelled.
OkOnlyIfBothRelaysOk ==
  result.variant = "Ok" => \A i \in Relays : rpc[i] = "ok"

\* C5 witness: the run returned Ok.
OkOnlyIfBothRelaysOkWitness ==
  /\ pc = "returned" /\ result.variant = "Ok"
  /\ yielded[1] >= 1

\* C6 (as claimed): once the ChildProcess object is dropped or the body has
\* returned, no relay task is still running or suspended in send, and none
\* was cut off by the runtime's shutdown.
NoRelayAbandoned ==
  (childHandle = "dropped" \/ pc \in Returned) =>
    \A i \in Relays : rpc[i] \notin {"read", "send", "cancelled"}

\* The error the orchestration meets first, in its own order: the sink's,
\* then the stdout relay's, then the stderr relay's.
FirstFailure ==
  IF sinkFailed THEN Err("IoError", "sink")
  ELSE IF JoinError(1) # "none" THEN Err(JoinError(1), "stdout")
  ELSE IF JoinError(2) # "none" THEN Err(JoinError(2), "stderr")
  ELSE Ok

\* C7: a run that spawned the child returns one result, and it is the first
\* failure in the orchestration's order: the sink's write or flush failure
\* if there was one; otherwise the terminal or join error of the stdout
\* relay; otherwise that of the stderr relay; otherwise Ok.
FirstErrorSurfaced ==
  (pc \in Returned /\ spawned = 1) => result = FirstFailure

\* C7 witness: both relays failed, the stderr one by a panic, and the run
\* returned the stdout relay's read error.
FirstErrorSurfacedWitness ==
  /\ pc = "returned" /\ ~sinkFailed
  /\ rpc[1] = "io_err" /\ rpc[2] = "panicked"
  /\ result = Err("ThreadError(IoError)", "stdout")

\* What a rejected run leaves behind: NoWorld, and nothing done.
RejectedAtOnce ==
  /\ result = Err("NoWorld", "check")
  /\ net = 0 /\ wrote = {} /\ spawned = 0
  /\ Files = fs0 /\ childHandle = "none"

\* C8 (as claimed): when the directory holds neither a subdirectory `world`
\* nor a file world/level.dat, the run returns NoWorld before anything else.
EnvironmentRejectedNoMarkerDir ==
  (pc # "check" /\ world # "dir" /\ ~levelDat) => RejectedAtOnce

\* C8 (amended): when the directory holds no entry `world` at all, neither a
\* directory nor a regular file, the run returns NoWorld before anything
\* else: no request, no file created or written, no child spawned.
EnvironmentRejected ==
  (pc # "check" /\ world = "absent") => RejectedAtOnce

\* C8 witness: a run on a directory without `world` has ended.
EnvironmentRejectedWitness ==
  pc = "exited" /\ world = "absent" /\ result.variant = "NoWorld"

\* C9 (as claimed): in a run that follows a run which completed its setup,
\* the artifact is not requested again and the directory's files stay as
\* they were.
SetupFetchesOnlyOnce ==
  (run > 1 /\ prev.setup) => (net <= 1 /\ wrote = {} /\ Files = fs0)

\* C9 (amended): in a run that follows a run which completed its setup, and
\* that resolves the same artifact filename (or has not resolved it yet), only
\* the download page is requested, no file is created or written, and the
\* directory's files stay as they were.
SetupIdempotent ==
  (run > 1 /\ prev.setup /\ fname \in {"none", prev.fname}) =>
    (net <= 1 /\ wrote = {} /\ Files = fs0)

\* C9 witness: the second run has completed its setup for the artifact the
\* first run downloaded.
SetupIdempotentWitness ==
  /\ run = 2 /\ prev.setup /\ prev.downloaded
  /\ fname = prev.fname /\ setupDone /\ net = 1

\* C10 (as claimed): when run_minecraft_server returned an error, the program
\* has printed one error line to standard error and exits non-zero.
CliFailureReported ==
  (pc = "exited" /\ result.variant # "Ok") => (stderrLines = 1 /\ exitCode # 0)

\* C11: the loop is past recv's end-of-sequence (the join loop runs) only in
\* states where both relay tasks have ended and hold no line, the channel is
\* empty and every line that was yielded has been taken and written; and the
\* loop is left in no other way than by that end-of-sequence or by a failed
\* write or flush.
EndOfSequenceOnlyWhenDrained ==
  /\ [](pc = "join" =>
          /\ \A i \in Relays : Terminated(i) /\ held[i] = 0
          /\ chan = <<>> /\ apc = "recv"
          /\ Len(taken) = YieldedCount
          /\ DeliveredCount = YieldedCount)
  /\ [][(pc = "drain" /\ pc' # "drain") =>
          \/ pc' = "join" /\ chan = <<>> /\ \A i \in Relays : Terminated(i)
          \/ sinkFailed']_vars

\* C11 witness: the loop ended after lines of both sources, one relay
\* having ended with a read error.
EndOfSequenceOnlyWhenDrainedWitness ==
  /\ pc = "join"
  /\ yielded[1] = 2 /\ yielded[2] = 1
  /\ rpc[1] = "io_err" /\ rpc[2] = "ok"

\* C12: once the pipeline is started, run_minecraft_server eventually
\* returns, and when it has returned no relay is suspended in send or in a
\* read any more: no relay stays suspended in send for ever and the loop
\* does not stay suspended in recv for ever.
Termination ==
  (pc = "drain") ~> (pc = "returned" /\ \A i \in Relays : ~Running(i))

\* C12 witness: the run has returned after every line of both sources went
\* through the channel.
TerminationWitness ==
  /\ pc = "returned" /\ spawned = 1
  /\ yielded[1] = lineCap /\ yielded[2] = lineCap /\ lineCap > 0
  /\ DeliveredCount = YieldedCount

\* C13: relay independence under failure.  While the sink has not failed,
\* a relay that ended with a read error does not stop the other one: the
\* other is neither cancelled nor refused by the channel, and when the run
\* has returned (with the relay's error) every line the other source
\* yielded, before or after the failure, is in the sink, in order.
RelayIndependence ==
  \A i \in Relays : \A j \in Relays \ {i} :
    (rpc[i] = "io_err" /\ ~sinkFailed) =>
      /\ rpc[j] \notin {"cancelled", "send_err"}
      /\ Running(j) => rxOpen /\ pc = "drain"
      /\ pc \in Returned =>
           /\ rpc[j] \in {"ok", "io_err"}
           /\ LinesOf(j) = [k \in 1..yielded[j] |-> <<j, k>>]
           /\ result.variant = "ThreadError(IoError)"

\* C13 witness: stdout's relay failed before it yielded a line, stderr
\* yielded lines after that failure and closed, and the run has returned.
RelayIndependenceWitness ==
  /\ pc = "returned" /\ ~sinkFailed
  /\ rpc[1] = "io_err" /\ yielded[1] = 0
  /\ rpc[2] = "ok" /\ yielded[2] >= 2 /\ lateRead
  /\ Len(LinesOf(2)) = yielded[2]

\* What the sink holds once each line of `lines` was written with its
\* terminator: line, '\n', line, '\n', ...
RECURSIVE Terminated_Lines(_)
Terminated_Lines(lines) ==
  IF lines = <<>> THEN <<>>
  ELSE <<Head(lines), NL>> \o Terminated_Lines(Tail(lines))

\* The dequeued lines whose write and flush are complete: all of them when
\* the loop is at recv, all but the last one while it writes that one.
FlushedLines ==
  IF apc = "recv" THEN taken ELSE SubSeq(taken, 1, Len(taken) - 1)

\* C14: flush per line, in dequeue order.  The sink always holds exactly
\* the dequeued lines whose flush is done, in dequeue order, each followed
\* by one '\n'; the line being written is the last one dequeued and is
\* buffered with at most its own terminator; and a line is only taken from
\* the channel when every line dequeued before it is flushed and nothing
\* is buffered.
FlushPerLine ==
  /\ [](/\ sink = Terminated_Lines(FlushedLines)
        /\ apc = "recv" => wbuf = <<>>
        /\ apc # "recv" => /\ taken # <<>> /\ cur = taken[Len(taken)]
                           /\ wbuf \in {<<>>, <<cur>>, <<cur, NL>>})
  /\ [][Len(taken') > Len(taken) =>
          /\ sink = Terminated_Lines(taken)
          /\ wbuf = <<>>
          /\ taken' = Append(taken, Head(chan))]_vars

\* C14 witness: a third line has just been dequeued, after lines of both
\* sources were written and flushed.
FlushPerLineWitness ==
  /\ pc = "drain" /\ apc = "write_all" /\ Len(taken) = 3
  /\ taken[1][1] # taken[2][1]
  /\ sink = <<taken[1], NL, taken[2], NL>>

\* C15: aggregator failure.  The step in which a write or flush fails is
\* the return of run_minecraft_server with that error, whatever the relays
\* are doing; from then on the run's result is that error, the receiver is
\* gone, and nothing more is dequeued or reaches the sink.
AggregatorFailure ==
  /\ [](sinkFailed => /\ pc \in Returned
                      /\ result = Err("IoError", "sink")
                      /\ ~rxOpen /\ chan = <<>> /\ wbuf = <<>>)
  /\ [][(~sinkFailed /\ sinkFailed') =>
          /\ pc = "drain" /\ apc # "recv" /\ pc' = "body_done"
          /\ sink' = sink /\ taken' = taken]_vars
  /\ [][(sinkFailed /\ run' = run) =>
          sinkFailed' /\ sink' = sink /\ taken' = taken /\ result' = result]_vars

\* C15 witness: the flush of the second line failed while a relay was
\* suspended in send with the next line and the other was reading.
AggregatorFailureWitness ==
  /\ sinkFailed /\ pc = "body_done" /\ apc = "flush"
  /\ Len(taken) = 2 /\ Len(sink) = 2
  /\ \E i \in Relays : rpc[i] = "send" /\ rpc[3 - i] = "read"

\* The lines that are somewhere between a relay and the consumer: held by
\* a relay for its send, queued, dequeued, buffered, or in the sink.
InFlight ==
  {<<i, held[i]>> : i \in {r \in Relays : held[r] # 0}}
    \cup {chan[k] : k \in DOMAIN chan}
    \cup {taken[k] : k \in DOMAIN taken}
    \cup ({cur} \ {NL})
    \cup ({wbuf[k] : k \in DOMAIN wbuf} \ {NL})
    \cup ({sink[k] : k \in DOMAIN sink} \ {NL})

\* C16: only complete lines reach the consumer.  Every line held, queued,
\* buffered or written is one that next_line returned for its source (the
\* k-th line of source i with k <= yielded[i]); the bytes of a line whose
\* read is unfinished are nowhere but in the reader, and the step in which
\* a read fails enqueues nothing and writes nothing.
OnlyCompleteLines ==
  /\ [](/\ \A t \in InFlight : t[1] \in Relays /\ t[2] \in 1..yielded[t[1]]
        /\ \A i \in Relays : rpc[i] = "io_err" => held[i] = 0)
  /\ [][\A i \in Relays :
          (rpc[i] = "read" /\ rpc'[i] = "io_err") =>
             /\ chan' = chan /\ sink' = sink /\ wbuf' = wbuf
             /\ yielded' = yielded /\ held'[i] = 0]_vars

\* C16 witness: a read of stdout failed in the middle of its second line;
\* the run has returned and the sink holds stdout's first line only.
OnlyCompleteLinesWitness ==
  /\ pc = "returned" /\ ~sinkFailed
  /\ rpc[1] = "io_err" /\ partial[1] /\ yielded[1] = 1
  /\ LinesOf(1) = <<(<<1, 1>>)>>

\* C17: artifact integrity across runs.  Whenever the child is launched the
\* file at server_path holds the complete artifact, and a run that failed
\* in the download request or in the write leaves no file at server_path
\* that would make a later run skip the download.
ArtifactIntegrity ==
  /\ spawned = 1 => jar[fname] = "complete"
  /\ (pc \in Returned /\ result.origin \in {"download", "write"}) => MustDownload

\* C18: child process lifetime.  When run_minecraft_server has returned
\* after it spawned the child, the child is no longer running: it has
\* ended, or both of its streams were read to their end.
ChildStoppedAtReturn ==
  (pc \in {"returned", "exited"} /\ spawned = 1) =>
     \/ childProc = "exited"
     \/ \A i \in Relays : rpc[i] = "ok"
====
